---------------------------- MODULE Spec2Model ----------------------------
(***************************************************************************)
(* Model of BGV_world_country_db_lookup.cpp: a key/value lookup computed   *)
(* on slot vectors of integers modulo the plaintext modulus.               *)
(*                                                                         *)
(* A CTile is modelled by the slot vector it decrypts to: a sequence of    *)
(* slotCount integers in 0..plaintextModulus-1.  A C++ string is modelled  *)
(* as the sequence of its bytes (0..255).                                  *)
(***************************************************************************)
EXTENDS Integers, Sequences, FiniteSets, TLC

VARIABLES
  plaintextModulus,      \* main: int plaintextModulus (the modulus of `he`)
  slotCount,             \* he.slotCount()
  pc,                    \* position in main/run, or in a component run
  country_db,            \* run: vector<pair<string,string>> country_db
  encrypted_country_db,  \* run: vector<pair<CTile,CTile>> encrypted_country_db
  query_string,          \* run: string query_string
  query,                 \* run: CTile query
  mask,                  \* run: vector<CTile> mask
  value,                 \* run: CTile value
  string_result,         \* run: string string_result
  repeated,              \* TRUE once lookup is called again on the database
  prev_result,           \* string_result of the previous lookup
  pw,                    \* pow: its locals (ctile, y, yIsOne, degree)
  arg,                   \* input of the component under study
  ret                    \* output of the component under study

vars == <<plaintextModulus, slotCount, pc, country_db, encrypted_country_db,
          query_string, query, mask, value, string_result, repeated,
          prev_result, pw, arg, ret>>

runVars == <<country_db, encrypted_country_db, query_string, query, mask,
             value, string_result, repeated, prev_result>>

-----------------------------------------------------------------------------
(* Bounds of the model *)

MaxSlots == 3
MaxRecords == 2
MaxDegree == 7
PowSlots == 1
MaskSlots == 2
ReduceSlots == 8

-----------------------------------------------------------------------------
(* Arithmetic helpers *)

IsPrime(k) == k >= 2 /\ \A d \in 2..(k - 1) : k % d # 0

RECURSIVE IsPowerOfTwo(_)
IsPowerOfTwo(k) ==
  k >= 1 /\ (k = 1 \/ (k % 2 = 0 /\ IsPowerOfTwo(k \div 2)))

\* b^e mod m, by the binary expansion of e from its leading digit
RECURSIVE ModPow(_, _, _)
ModPow(b, e, m) ==
  IF e = 0 THEN 1 % m
  ELSE LET h == ModPow(b, e \div 2, m)
       IN  (((h * h) % m) * (IF e % 2 = 1 THEN b ELSE 1)) % m

-----------------------------------------------------------------------------
(* The ciphertext capability, on decrypted slot vectors *)

Slots == 1..slotCount

\* The slot vector <<F(1), ..., F(k)>>
RECURSIVE SlotVector(_, _)
SlotVector(F(_), k) ==
  IF k = 0 THEN <<>> ELSE Append(SlotVector(F, k - 1), F(k))

EncodeEncrypt(vals) ==
  SlotVector(LAMBDA i : IF i <= Len(vals) THEN vals[i] % plaintextModulus
                        ELSE 0, slotCount)

DecryptDecodeInt(c) == c

Add(a, b) == SlotVector(LAMBDA i : (a[i] + b[i]) % plaintextModulus, slotCount)

Sub(a, b) == SlotVector(LAMBDA i : (a[i] - b[i]) % plaintextModulus, slotCount)

Multiply(a, b) ==
  SlotVector(LAMBDA i : (a[i] * b[i]) % plaintextModulus, slotCount)

Negate(a) == SlotVector(LAMBDA i : (0 - a[i]) % plaintextModulus, slotCount)

Square(a) == Multiply(a, a)

\* rotate(k): cyclic shift by k positions, negative = shift left
Rotate(a, k) ==
  SlotVector(LAMBDA i : a[((i - 1 - k) % slotCount) + 1], slotCount)

\* CTile y(he): a ciphertext that holds nothing yet
EmptyCTile == <<>>

-----------------------------------------------------------------------------
(* pow: square and multiply *)

\* One pass of the body of `while (degree > 1)`, with a y that is
\* overwritten on every odd degree
PowStepOverwriteY(st) ==
  IF st.degree % 2 = 0
    THEN [st EXCEPT !.ctile = Square(st.ctile), !.degree = st.degree \div 2]
    ELSE [ctile |-> Square(st.ctile), y |-> st.ctile, yIsOne |-> FALSE,
          degree |-> (st.degree - 1) \div 2]

\* One pass of the body of `while (degree > 1)`
PowStep(st) ==
  IF st.degree % 2 = 0
    THEN [st EXCEPT !.ctile = Square(st.ctile), !.degree = st.degree \div 2]
    ELSE [ctile  |-> Square(st.ctile),
          y      |-> IF st.yIsOne THEN st.ctile ELSE Multiply(st.y, st.ctile),
          yIsOne |-> FALSE,
          degree |-> (st.degree - 1) \div 2]

\* The locals of pow on entry
PowEntry(ctile, degree) ==
  [ctile |-> ctile, y |-> EmptyCTile, yIsOne |-> TRUE, degree |-> degree]

\* `if (!yIsOne) ctile.multiply(y);`
PowExit(st) == IF st.yIsOne THEN st.ctile ELSE Multiply(st.ctile, st.y)

RECURSIVE PowLoop(_)
PowLoop(st) == IF st.degree > 1 THEN PowLoop(PowStep(st)) ELSE st

\* pow(he, ctile, degree): the value of ctile on return
Pow(ctile, degree) == PowExit(PowLoop(PowEntry(ctile, degree)))

\* vector<int>(he.slotCount(), 1), encoded and encrypted
One == EncodeEncrypt([i \in Slots |-> 1])

\* The equality mask without `res.negate()`
EqualityMaskNoNegate(key, q) == Add(Pow(Sub(key, q), plaintextModulus - 1), One)

\* run, per entry: mask_entry = key; sub(query); pow(p - 1); negate(); add(one)
EqualityMask(key, q) ==
  Add(Negate(Pow(Sub(key, q), plaintextModulus - 1)), One)

\* The rotate-and-multiply loop leaving one round early
RECURSIVE ReduceLoopStopsEarly(_, _)
ReduceLoopStopsEarly(res, rot) ==
  IF rot * 2 < slotCount
    THEN ReduceLoopStopsEarly(Multiply(res, Rotate(res, 0 - rot)), rot * 2)
    ELSE res

\* The rotate-and-multiply loop with the copy tmp left unrotated
RECURSIVE ReduceLoopNoRotate(_, _)
ReduceLoopNoRotate(res, rot) ==
  IF rot < slotCount
    THEN ReduceLoopNoRotate(Multiply(res, res), rot * 2)
    ELSE res

\* run: for (rot = 1; rot < slotCount; rot *= 2) { tmp(res); tmp.rotate(-rot);
\* res.multiply(tmp); }, from the pass that starts with rot
RECURSIVE ReduceLoop(_, _)
ReduceLoop(res, rot) ==
  IF rot < slotCount
    THEN ReduceLoop(Multiply(res, Rotate(res, 0 - rot)), rot * 2)
    ELSE res

-----------------------------------------------------------------------------
(* pow run on its own: inputs drawn in the initial state, one step per pass *)

PowModuli == {2, 3, 5, 131}

Degrees == (1..MaxDegree) \cup {plaintextModulus - 1}

\* The variables of run(), while a component is studied on its own
RunIdle ==
  /\ country_db = <<>>
  /\ encrypted_country_db = <<>>
  /\ query_string = <<>>
  /\ query = EmptyCTile
  /\ mask = <<>>
  /\ value = EmptyCTile
  /\ string_result = <<>>
  /\ repeated = FALSE
  /\ prev_result = <<>>

InitPow ==
  /\ plaintextModulus \in PowModuli
  /\ slotCount \in 1..PowSlots
  /\ arg \in [ctile : [Slots -> 0..(plaintextModulus - 1)], degree : Degrees]
  /\ pw = PowEntry(arg.ctile, arg.degree)
  /\ pc = "pow_loop"
  /\ ret = EmptyCTile
  /\ RunIdle

PowIterate ==
  /\ pc = "pow_loop"
  /\ pw.degree > 1
  /\ pw' = PowStep(pw)
  /\ UNCHANGED <<plaintextModulus, slotCount, pc, arg, ret, runVars>>

PowReturn ==
  /\ pc = "pow_loop"
  /\ ~(pw.degree > 1)
  /\ ret' = PowExit(pw)
  /\ pc' = "pow_done"
  /\ UNCHANGED <<plaintextModulus, slotCount, pw, arg, runVars>>

NextPow == PowIterate \/ PowReturn

SpecPow == InitPow /\ [][NextPow]_vars

\* x^e mod plaintextModulus in every slot
SlotPower(x, e) == [i \in Slots |-> ModPow(x[i], e, plaintextModulus)]

\* The accumulator y, an unassigned y counting as 1
YValue(st) == IF st.yIsOne THEN [i \in Slots |-> 1 % plaintextModulus] ELSE st.y

PowLoopInvariant ==
  pc = "pow_loop" =>
    /\ pw.degree >= 1
    /\ Multiply(YValue(pw), SlotPower(pw.ctile, pw.degree))
         = SlotPower(arg.ctile, arg.degree)
    /\ ENABLED NextPow

PowResult ==
  pc = "pow_done" =>
    /\ ret = SlotPower(arg.ctile, arg.degree)
    /\ (IsPrime(plaintextModulus) /\ plaintextModulus >= 128
          /\ arg.degree = plaintextModulus - 1)
         => \A i \in Slots : ret[i] = IF arg.ctile[i] = 0 THEN 0 ELSE 1

\* Every pass of the loop lowers the degree, which stays at least 1
PowProgress ==
  pc = "pow_loop" =>
    \/ pc' = "pow_done"
    \/ pw'.degree >= 1 /\ pw'.degree < pw.degree

\* C3: for every degree >= 1 pow terminates with x^degree mod p in every
\* slot: the loop keeps y * base^degree = x^originalDegree (an unassigned y
\* counting as 1) and lowers the degree on every pass; for prime p >= 128
\* pow(x, p-1) is 1 in the slots where x # 0 and 0 in the slots where x = 0.
C3_PowComputesPower ==
  [](PowLoopInvariant /\ PowResult) /\ [][PowProgress]_vars

\* pow has returned on a non-zero and on a zero input of degree p-1, p >= 128,
\* after folding into y more than once
C3_Witness ==
  /\ pc = "pow_done"
  /\ plaintextModulus >= 128
  /\ arg.degree = plaintextModulus - 1
  /\ arg.ctile[1] = 65
  /\ ~pw.yIsOne
  /\ ret[1] = 1

-----------------------------------------------------------------------------
(* The equality mask run on its own *)

MaskModuli == {2, 3, 5, 7, 131}

\* Slot values of the operands: all of them for a small modulus, the ends
\* of the range and two character codes for a large one
MaskValues ==
  IF plaintextModulus <= 7
    THEN 0..(plaintextModulus - 1)
    ELSE {0, 1, 65, 66, plaintextModulus - 1}

InitMask ==
  /\ plaintextModulus \in MaskModuli
  /\ slotCount \in 1..MaskSlots
  /\ arg \in [a : [Slots -> MaskValues], b : [Slots -> MaskValues]]
  /\ pw = PowEntry(EmptyCTile, 0)
  /\ pc = "mask"
  /\ ret = EmptyCTile
  /\ RunIdle

BuildMask ==
  /\ pc = "mask"
  /\ ret' = EqualityMask(arg.a, arg.b)
  /\ pc' = "mask_done"
  /\ UNCHANGED <<plaintextModulus, slotCount, pw, arg, runVars>>

NextMask == BuildMask

SpecMask == InitMask /\ [][NextMask]_vars

AllOnes == [i \in Slots |-> 1]

AllZero == [i \in Slots |-> 0]

\* C2: for prime p and slot vectors a, b over [0, p), the mask
\* 1 - (a - b)^(p-1) has slot i equal to 1 if a[i] = b[i] and 0 otherwise: it
\* is the all-ones vector iff a = b, and otherwise has at least one zero slot.
C2_MaskIsSlotwiseEquality ==
  (pc = "mask_done" /\ IsPrime(plaintextModulus)) =>
    /\ \A i \in Slots : ret[i] = IF arg.a[i] = arg.b[i] THEN 1 ELSE 0
    /\ (ret = AllOnes) <=> (arg.a = arg.b)
    /\ (arg.a # arg.b) => \E i \in Slots : ret[i] = 0

\* A mask with a matching and a mismatching slot
C2_Witness ==
  /\ pc = "mask_done"
  /\ plaintextModulus = 131
  /\ slotCount = 2
  /\ arg.a = <<65, 66>>
  /\ arg.b = <<65, 65>>
  /\ ret = <<1, 0>>

-----------------------------------------------------------------------------
(* The rotate-and-multiply loop run on its own *)

ReduceModuli == {2, 131}

InitReduce ==
  /\ plaintextModulus \in ReduceModuli
  /\ slotCount \in 1..ReduceSlots
  /\ arg \in [Slots -> {0, 1}]
  /\ pw = PowEntry(EmptyCTile, 0)
  /\ pc = "reduce"
  /\ ret = EmptyCTile
  /\ RunIdle

Reduce ==
  /\ pc = "reduce"
  /\ ret' = ReduceLoop(arg, 1)
  /\ pc' = "reduce_done"
  /\ UNCHANGED <<plaintextModulus, slotCount, pw, arg, runVars>>

NextReduce == Reduce

SpecReduce == InitReduce /\ [][NextReduce]_vars

\* The logical AND of all slots of a 0/1 vector, replicated in every slot
AndOfSlots(v) == IF \A i \in Slots : v[i] = 1 THEN AllOnes ELSE AllZero

\* C4: for a power-of-two slot count and a 0/1 vector v, the loop ends with
\* the all-ones vector iff every slot of v is 1, and the all-zero vector
\* otherwise.
C4_ReductionIsAnd ==
  (pc = "reduce_done" /\ IsPowerOfTwo(slotCount)) =>
    /\ ret = AndOfSlots(arg)
    /\ (ret = AllOnes) <=> (\A i \in Slots : arg[i] = 1)

\* Four slots, a single zero among them, reduced to all-zero
C4_Witness ==
  /\ pc = "reduce_done"
  /\ slotCount = 4
  /\ arg = <<1, 1, 0, 1>>
  /\ ret = <<0, 0, 0, 0>>

\* C8 as stated: when the slot count is not a power of two there is a 0/1
\* vector for which, after the loop, some slot does not hold the AND of all
\* the original slots.
C8_IncompleteReduction ==
  (pc = "reduce_done" /\ ~IsPowerOfTwo(slotCount)) =>
    \E v \in [Slots -> {0, 1}] :
      \E i \in Slots : ReduceLoop(v, 1)[i] # AndOfSlots(v)[i]

\* C8 as amended: when the slot count is not a power of two the loop still
\* ends, for every 0/1 vector, with the AND of all the original slots in
\* every slot.
C8_ReductionCompleteForAnySlotCount ==
  (pc = "reduce_done" /\ ~IsPowerOfTwo(slotCount)) =>
    /\ ret = AndOfSlots(arg)
    /\ \A v \in [Slots -> {0, 1}] : ReduceLoop(v, 1) = AndOfSlots(v)

\* Three slots, the single zero two slots away from slot 1, reduced to all-zero
C8_Witness ==
  /\ pc = "reduce_done"
  /\ slotCount = 3
  /\ arg = <<1, 1, 0>>
  /\ ret = <<0, 0, 0>>

-----------------------------------------------------------------------------
(* main and run *)

\* --plaintext_modulus: one value the assertion of main refuses, 127,
\* a composite, the smallest prime above 127, and the default 257
Moduli == {7, 127, 129, 131, 257}

\* The slot counts of the context handed to run
SlotCounts == 1..MaxSlots

KeyStrings == {<<>>, <<65>>, <<65, 65>>, <<65, 66>>}

ValueStrings == {<<67>>, <<68, 67>>}

\* The keys, a string that is no key, a key followed by a NUL byte, and a
\* string one character longer than the longest key
QueryStrings == KeyStrings \cup {<<66>>, <<65, 0>>, <<65, 66, 65>>}

\* The data file, as the sequence of its rows <<row[0], row[1]>>
Files ==
  UNION {[1..k -> KeyStrings \X ValueStrings] : k \in 0..MaxRecords}

\* The outcomes of reading mask[0] of an empty vector that return a CTile
GarbageCTiles == [Slots -> {0, 66}]

\* The text run reports when slot 0 of the result decodes to 0
NotFoundMessage ==
  << 67, 111, 117, 110, 116, 114, 121, 32, 110, 97, 109, 101, 32, 110, 111, 116,
     32, 105, 110, 32, 116, 104, 101, 32, 100, 97, 116, 97, 98, 97, 115, 101,
     46, 10, 42, 42, 42, 32, 80, 108, 101, 97, 115, 101, 32, 109, 97, 107,
     101, 32, 115, 117, 114, 101, 32, 116, 111, 32, 101, 110, 116, 101, 114, 32,
     116, 104, 101, 32, 110, 97, 109, 101, 32, 111, 102, 32, 97, 110, 32, 69,
     117, 114, 111, 112, 101, 97, 110, 32, 67, 111, 117, 110, 116, 114, 121, 10,
     42, 42, 42, 32, 119, 105, 116, 104, 32, 116, 104, 101, 32, 102, 105, 114,
     115, 116, 32, 108, 101, 116, 116, 101, 114, 32, 105, 110, 32, 117, 112, 112,
     101, 114, 32, 99, 97, 115, 101, 46 >>

\* stringToAscii: the i'th element is the code of the i'th character, a char
\* above 127 being negative
StringToAscii(val) ==
  [i \in 1..Len(val) |-> IF val[i] < 128 THEN val[i] ELSE val[i] - 256]

\* string_result.push_back(static_cast<long>(res[i])): the low byte
AsciiToString(res) == [i \in 1..Len(res) |-> res[i] % 256]

\* read_csv: some row has a field longer than maxLen
ReadCsvThrows(file, maxLen) ==
  \E i \in 1..Len(file) : Len(file[i][1]) > maxLen \/ Len(file[i][2]) > maxLen

\* read_csv: the dataset returned when no row is refused
ReadCsv(file, maxLen) == [i \in 1..Len(file) |-> <<file[i][1], file[i][2]>>]

\* run: the loop that encrypts country_db into encrypted_country_db
EncryptDb(db) ==
  [i \in 1..Len(db) |-> <<EncodeEncrypt(StringToAscii(db[i][1])),
                          EncodeEncrypt(StringToAscii(db[i][2]))>>]

\* The search on one entry without the multiplication by the capital
SearchEntryNoValue(encrypted_pair, q) ==
  [pair |-> encrypted_pair,
   res  |-> ReduceLoop(EqualityMask(encrypted_pair[1], q), 1)]

\* run: the body of `for (const auto& encrypted_pair : encrypted_country_db)`:
\* the entry as the body leaves it, and the res pushed on mask
SearchEntry(encrypted_pair, q) ==
  [pair |-> encrypted_pair,
   res  |-> Multiply(ReduceLoop(EqualityMask(encrypted_pair[1], q), 1),
                     encrypted_pair[2])]

\* The aggregation with the loop leaving one element early
RECURSIVE AggregateDropsLast(_, _, _)
AggregateDropsLast(val, m, i) ==
  IF i < Len(m) - 1 THEN AggregateDropsLast(Add(val, m[i + 1]), m, i + 1)
  ELSE val

\* run: for (i = 1; i < mask.size(); i++) value.add(mask[i]), from index i
\* (mask[i] is m[i + 1])
RECURSIVE Aggregate(_, _, _)
Aggregate(val, m, i) ==
  IF i < Len(m) THEN Aggregate(Add(val, m[i + 1]), m, i + 1) ELSE val

\* run: the decoded string, replaced by the message when it starts with 0
Report(val) ==
  LET str == AsciiToString(DecryptDecodeInt(val))
  IN  IF str[1] = 0 THEN NotFoundMessage ELSE str

Init ==
  /\ plaintextModulus \in Moduli
  /\ slotCount = 0
  /\ pc = "main"
  /\ pw = PowEntry(EmptyCTile, 0)
  /\ arg = <<>>
  /\ ret = EmptyCTile
  /\ RunIdle

\* main: always_assert(plaintextModulus >= 127) fails
MainAssertFails ==
  /\ pc = "main"
  /\ ~(plaintextModulus >= 127)
  /\ pc' = "aborted"
  /\ UNCHANGED <<plaintextModulus, slotCount, pw, arg, ret, runVars>>

\* main: the assertion passes, he.init(req) sets up the context (main asks
\* for 32 slots; run takes the slot count from the context), run is entered
MainInit ==
  /\ pc = "main"
  /\ plaintextModulus >= 127
  /\ slotCount' \in SlotCounts
  /\ pc' = "run"
  /\ UNCHANGED <<plaintextModulus, pw, arg, ret, runVars>>

\* run: read_csv throws on a field longer than he.slotCount()
RunReadCsvThrows ==
  /\ pc = "run"
  /\ \E file \in Files : ReadCsvThrows(file, slotCount)
  /\ pc' = "aborted"
  /\ UNCHANGED <<plaintextModulus, slotCount, pw, arg, ret, runVars>>

\* run: the database is read and encrypted
RunBuildDatabase ==
  /\ pc = "run"
  /\ \E file \in Files :
       /\ ~ReadCsvThrows(file, slotCount)
       /\ country_db' = ReadCsv(file, slotCount)
       /\ encrypted_country_db' = EncryptDb(ReadCsv(file, slotCount))
  /\ pc' = "ready"
  /\ UNCHANGED <<plaintextModulus, slotCount, pw, arg, ret, query_string,
                 query, mask, value, string_result, repeated, prev_result>>

\* run: the query is read and encrypted; a repeated lookup asks the same
\* query again
RunEncodeQuery ==
  /\ pc = "ready"
  /\ \E q \in QueryStrings :
       /\ repeated => q = query_string
       /\ query_string' = q
       /\ query' = EncodeEncrypt(StringToAscii(q))
  /\ pc' = "encoded"
  /\ UNCHANGED <<plaintextModulus, slotCount, pw, arg, ret, country_db,
                 encrypted_country_db, mask, value, string_result,
                 repeated, prev_result>>

\* run: the search loop over every entry of the database
RunSearch ==
  /\ pc = "encoded"
  /\ LET done == [i \in 1..Len(encrypted_country_db) |->
                     SearchEntry(encrypted_country_db[i], query)]
     IN  /\ mask' = [i \in 1..Len(encrypted_country_db) |-> done[i].res]
         /\ encrypted_country_db' =
              [i \in 1..Len(encrypted_country_db) |-> done[i].pair]
  /\ pc' = "matched"
  /\ UNCHANGED <<plaintextModulus, slotCount, pw, arg, ret, country_db,
                 query_string, query, value, string_result, repeated,
                 prev_result>>

\* run: CTile value = mask[0]; value.add(mask[i]) for the others
RunAggregate ==
  /\ pc = "matched"
  /\ mask # <<>>
  /\ value' = Aggregate(mask[1], mask, 1)
  /\ pc' = "aggregated"
  /\ UNCHANGED <<plaintextModulus, slotCount, pw, arg, ret, country_db,
                 encrypted_country_db, query_string, query, mask,
                 string_result, repeated, prev_result>>

\* run: CTile value = mask[0] on an empty mask: the read is undefined, the
\* program stops or goes on with whatever the read returned
RunAggregateEmptyMask ==
  /\ pc = "matched"
  /\ mask = <<>>
  /\ \/ pc' = "aborted" /\ UNCHANGED value
     \/ pc' = "aggregated" /\ value' \in GarbageCTiles
  /\ UNCHANGED <<plaintextModulus, slotCount, pw, arg, ret, country_db,
                 encrypted_country_db, query_string, query, mask,
                 string_result, repeated, prev_result>>

\* run: decrypt, decode, convert to a string, report
RunReport ==
  /\ pc = "aggregated"
  /\ string_result' = Report(value)
  /\ pc' = "done"
  /\ UNCHANGED <<plaintextModulus, slotCount, pw, arg, ret, country_db,
                 encrypted_country_db, query_string, query, mask, value,
                 repeated, prev_result>>

\* lookup called again on the database already built
LookupAgain ==
  /\ pc = "done"
  /\ ~repeated
  /\ repeated' = TRUE
  /\ prev_result' = string_result
  /\ pc' = "ready"
  /\ UNCHANGED <<plaintextModulus, slotCount, pw, arg, ret, country_db,
                 encrypted_country_db, query_string, query, mask, value,
                 string_result>>

Next ==
  \/ MainAssertFails
  \/ MainInit
  \/ RunReadCsvThrows
  \/ RunBuildDatabase
  \/ RunEncodeQuery
  \/ RunSearch
  \/ RunAggregate
  \/ RunAggregateEmptyMask
  \/ RunReport
  \/ LookupAgain

Spec == Init /\ [][Next]_vars

-----------------------------------------------------------------------------
(* Properties of main and run *)

Built == pc \in {"ready", "encoded", "matched", "aggregated", "done"}

CodesIn1To127(str) == \A i \in 1..Len(str) : str[i] \in 1..127

DistinctKeys(db) ==
  \A i, j \in 1..Len(db) : i # j => db[i][1] # db[j][1]

\* A string of at most slotCount characters as run reports it: its codes
\* followed by zero padding
Padded(str) == [i \in Slots |-> IF i <= Len(str) THEN str[i] ELSE 0]

\* The configuration the lookup is specified for
ValidConfiguration ==
  /\ plaintextModulus >= 128
  /\ IsPrime(plaintextModulus)
  /\ IsPowerOfTwo(slotCount)

LookupPrecondition ==
  /\ ValidConfiguration
  /\ Len(country_db) >= 1
  /\ DistinctKeys(country_db)
  /\ \A i \in 1..Len(country_db) :
       /\ CodesIn1To127(country_db[i][1])
       /\ CodesIn1To127(country_db[i][2])
       /\ Len(country_db[i][1]) <= slotCount
       /\ Len(country_db[i][2]) \in 1..slotCount
  /\ Len(query_string) <= slotCount

LookupIsExactMatch ==
  /\ \A i \in 1..Len(country_db) :
       country_db[i][1] = query_string =>
         string_result = Padded(country_db[i][2])
  /\ (\A i \in 1..Len(country_db) : country_db[i][1] # query_string) =>
       string_result = NotFoundMessage

\* C1 as stated: under the precondition on the database and the
\* configuration, for every query of at most slotCount characters the lookup
\* reports the value of the record whose key equals the query, and the
\* not-found message when no key equals the query.
C1_LookupExactMatch ==
  (pc = "done" /\ LookupPrecondition) => LookupIsExactMatch

\* C1 as amended: the same, for every query of at most slotCount characters
\* whose codes are in 1..127, like those of the keys.
C1_LookupExactMatchOfAsciiQuery ==
  (pc = "done" /\ LookupPrecondition /\ CodesIn1To127(query_string)) =>
    LookupIsExactMatch

\* Two records, the first key a strict prefix of the query, the second key
\* equal to it: the second value is reported
C1_Witness ==
  /\ pc = "done"
  /\ plaintextModulus = 131
  /\ slotCount = 2
  /\ country_db = << <<(<<65>>), (<<67>>)>>, <<(<<65, 66>>), (<<68, 67>>)>> >>
  /\ query_string = <<65, 66>>
  /\ string_result = <<68, 67>>

\* C5 as stated: a query longer than the slot count is rejected when it is
\* encoded, so that it is never truncated to the slot count and then matched
\* against the database: under a valid configuration no lookup reports a
\* value for a query longer than the slot count.
C5_OversizedQueryRejected ==
  (pc = "done" /\ ValidConfiguration /\ Len(query_string) > slotCount) =>
    string_result = NotFoundMessage

\* C6 as stated: the database is built only under a valid configuration: a
\* prime plaintext modulus of at least 128 and a power-of-two slot count.
C6_InvalidConfigurationRejected ==
  Built => ValidConfiguration

\* C7 as stated: under a valid configuration the lookup leaves the encrypted
\* database as it was built, and a second lookup with the same query reports
\* the same string as the first.
C7_RepeatedLookupIdentical ==
  ValidConfiguration =>
    /\ Built => encrypted_country_db = EncryptDb(country_db)
    /\ (pc = "done" /\ repeated) => string_result = prev_result

\* The part of C7 that does not rest on the aggregation: no step of the
\* lookup changes the encrypted database.
DatabaseNeverMutated ==
  Built => encrypted_country_db = EncryptDb(country_db)

\* The sum modulo p, in slot i, of the values of the first j records whose
\* encrypted key equals the encrypted query
RECURSIVE MatchingSum(_, _)
MatchingSum(j, i) ==
  IF j = 0 THEN 0
  ELSE (MatchingSum(j - 1, i)
          + (IF encrypted_country_db[j][1] = query
               THEN encrypted_country_db[j][2][i] ELSE 0)) % plaintextModulus

Matching == {j \in 1..Len(encrypted_country_db) :
               encrypted_country_db[j][1] = query}

\* C9: for a database of at least one record (keys may repeat), prime p and
\* a power-of-two slot count, the aggregated ciphertext holds in every slot i
\* the sum modulo p of value[i] over exactly the records whose key equals the
\* query (as slot vectors): all-zero when none matches, the value when one
\* matches, the slot-wise modular sum when several match.
C9_AggregateIsSumOfMatches ==
  (pc = "aggregated" /\ Len(encrypted_country_db) >= 1
     /\ IsPrime(plaintextModulus) /\ IsPowerOfTwo(slotCount)) =>
    /\ \A i \in Slots : value[i] = MatchingSum(Len(encrypted_country_db), i)
    /\ Matching = {} => value = AllZero
    /\ \A j \in Matching : Matching = {j} => value = encrypted_country_db[j][2]

\* Two records with the same key both match: the values add up modulo 131
C9_Witness ==
  /\ pc = "aggregated"
  /\ plaintextModulus = 131
  /\ slotCount = 2
  /\ country_db = << <<(<<65>>), (<<67>>)>>, <<(<<65>>), (<<68, 67>>)>> >>
  /\ query_string = <<65>>
  /\ value = <<4, 67>>

\* C10 as stated: when the lookup reaches the aggregation (here under a
\* valid configuration) the sequence of masks holds at least one element.
C10_MaskNonEmptyAtAggregation ==
  (pc = "matched" /\ ValidConfiguration) => Len(mask) >= 1

=============================================================================
